---------------------------- MODULE Spec2Model ----------------------------
(***************************************************************************)
(* Model of PrometheusEditor.js (fbcnms-alarms): the duration parser       *)
(* parseTimeString, the threshold extractor getThresholdExpression and the *)
(* hook useThresholdExpressionEditorState that parses the rule expression  *)
(* on mount and seeds the editor mode and the threshold record.            *)
(***************************************************************************)
EXTENDS Integers, Sequences, FiniteSets, TLC

(* ------------------------------ bounds --------------------------------- *)
\* longest label list carried by a selector
MaxLabels == 2
\* number of render passes of one editor session
MaxRenders == 4
\* longest duration string
MaxLen == 4

(* --------------------------- optional values --------------------------- *)
\* JavaScript null / undefined, and a present value
None == <<>>
Some(x) == <<x>>
Opt(S) == {None} \cup {Some(x) : x \in S}

\* all sequences over S of length at most n
SeqsUpTo(S, n) == UNION {[1..k -> S] : k \in 0..n}

(* ---------------------- PromQL expression values ----------------------- *)
\* PromQL.BinaryComparator: the only operators that are objects
ComparatorOps == {"==", "!=", ">", "<", ">=", "<="}
\* arithmetic and set operators are plain strings
StringOps == {"+", "and"}
BinaryComparator(op) == [isObject |-> TRUE, op |-> op]
StringOperator(op) == [isObject |-> FALSE, op |-> op]
BinaryOperators(cmp, str) ==
    {BinaryComparator(o) : o \in cmp} \cup {StringOperator(o) : o \in str}

LabelNames == {"networkID", "job"}
LabelValues == {"abc"}
Label == [name : LabelNames, value : LabelValues]
\* PromQL.Labels: a list of labels; a selector may carry none at all
LabelLists == SeqsUpTo(Label, MaxLabels)

InstantSelector(name, labels) ==
    [kind |-> "InstantSelector", selectorName |-> name, labels |-> labels]
Scalar(v) == [kind |-> "Scalar", value |-> v]
\* any other node variant (function call, aggregation, range selector ...)
OtherNode == [kind |-> "Other"]
BinaryOperation(lh, rh, operator) ==
    [kind |-> "BinaryOperation", lh |-> lh, rh |-> rh, operator |-> operator]

Selectors(names) ==
    {InstantSelector(n, l) : n \in names, l \in Opt(LabelLists)}
Scalars == {Scalar(0), Scalar(90)}
LeftOperands(names) == Selectors(names) \cup {Scalar(90), OtherNode}
RightOperands ==
    Scalars \cup {InstantSelector(Some("up"), None), OtherNode}
ExpressionsOver(names, rights, ops) ==
    {BinaryOperation(l, r, o) :
        l \in LeftOperands(names), r \in rights, o \in ops}
    \cup {InstantSelector(Some("up"), Some(<<>>)), Scalar(90), OtherNode}

\* the expressions the extractor is checked on
Expressions ==
    ExpressionsOver({None, Some("cpu_util")}, RightOperands,
                    BinaryOperators(ComparatorOps, StringOps))
\* the expressions the parser may hand to the editor
EditorExpressions ==
    ExpressionsOver({Some("cpu_util")}, RightOperands,
                    BinaryOperators({">", "=="}, {"+"}))

(* ------------------------- ThresholdExtractor -------------------------- *)
\* Labels.removeByName: drops every label of that name, keeps the others
removeByName(labels, name) == SelectSeq(labels, LAMBDA l : l.name # name)

asBinaryComparator_NoGuard(operator) == Some(operator)

\* an operator that is an object is a comparator, anything else is not
asBinaryComparator(operator) ==
    IF operator.isObject THEN Some(operator) ELSE None

IsThresholdShape(exp) ==
    /\ exp.kind = "BinaryOperation"
    /\ exp.lh.kind = "InstantSelector"
    /\ exp.rh.kind = "Scalar"

\* the body of getThresholdExpression after the shape test; `strip` is the
\* name given to filters.removeByName.  ret is the returned record (or null),
\* exp the argument as the call leaves it: filters aliases exp.lh.labels, so
\* the removal is done on the selector's own label list.
ExtractFrom(exp, strip) ==
    LET metricName ==
            IF exp.lh.selectorName = None THEN "" ELSE exp.lh.selectorName[1]
        threshold == exp.rh.value
        own == exp.lh.labels # None
        filters ==
            removeByName(IF own THEN exp.lh.labels[1] ELSE <<>>, strip)
        after ==
            IF own THEN [exp EXCEPT !.lh.labels = Some(filters)] ELSE exp
        comparator == asBinaryComparator(exp.operator)
    IN  IF comparator = None
        THEN [ret |-> None, exp |-> after]
        ELSE [ret |-> Some([metricName |-> metricName,
                            filters |-> filters,
                            comparator |-> comparator[1],
                            value |-> threshold]),
              exp |-> after]

getThresholdExpression_NoStrip(exp) ==
    IF ~IsThresholdShape(exp)
    THEN [ret |-> None, exp |-> exp]
    ELSE ExtractFrom(exp, "")

getThresholdExpression(exp) ==
    IF ~IsThresholdShape(exp)
    THEN [ret |-> None, exp |-> exp]
    ELSE ExtractFrom(exp, "networkID")

(* ------------------------------ the state ------------------------------ *)
VARIABLES
    \* useThresholdExpressionEditorState, one mounted PrometheusEditor
    expression,             \* prop rule?.expression of the current render
    thresholdEditorEnabled, \* from useAlarmContext(): true, false or absent
    parseResult,            \* what Parse does with the expression of the mount
    pc,                     \* "rendered": first render done, effect pending;
                            \* "ready": the mount effect has run
    thresholdExpression,    \* useState, line 490
    advancedEditorMode,     \* useState, line 500
    parsedExpression,       \* useMemo, line 505: null or the parsed object
    parseLog,               \* the arguments of every call of Parse, in order
    snackbar,               \* number of parse-error warnings enqueued
    effectRuns,             \* number of executions of the effect of line 518
    renders,                \* render passes so far
    \* getThresholdExpression applied to an expression on its own
    arg, extracted, xpc,
    \* parseTimeString applied to a string on its own
    timeStamp, duration, tpc

editorVars ==
    <<expression, thresholdEditorEnabled, parseResult, pc, thresholdExpression,
      advancedEditorMode, parsedExpression, parseLog, snackbar, effectRuns,
      renders>>
extractVars == <<arg, extracted, xpc>>
timeVars == <<timeStamp, duration, tpc>>
vars == <<editorVars, extractVars, timeVars>>

(* ---------------- useThresholdExpressionEditorState -------------------- *)
\* the values the expression prop takes: absent, empty, or a source text
ExpressionTexts == {"", "rule_a", "rule_b"}
ExpressionProps == Opt(ExpressionTexts)
\* Parse either throws or returns an expression
ParseError == [kind |-> "ParseError"]
ParseResults == {ParseError} \cup EditorExpressions
\* records the threshold editor hands to onThresholdExpressionChange
ThresholdEdits ==
    {[metricName |-> "cpu_util", filters |-> <<>>,
      comparator |-> BinaryComparator("<"), value |-> 90],
     [metricName |-> "mem_free",
      filters |-> <<[name |-> "job", value |-> "abc"]>>,
      comparator |-> BinaryComparator(">="), value |-> 0]}

\* the initial value of the thresholdExpression state
DefaultThreshold ==
    [metricName |-> "", filters |-> <<>>,
     comparator |-> BinaryComparator("=="), value |-> 0]

\* !thresholdEditorEnabled
InitialMode(enabled) == enabled # Some(TRUE)

\* !expression
IsEmptyExpression(e) == e = None \/ e = Some("")

\* try { return Parse(expression) } catch { return null }: a fresh object,
\* identified by the number of the call that made it
ParseOrNull(log, outcome) ==
    IF outcome.kind = "ParseError"
    THEN None
    ELSE Some([id |-> Len(log) + 1, node |-> outcome])

useMemoParse_NoMemo(isMount, memo, log, e, outcome) ==
    [parsedExpression |-> ParseOrNull(log, outcome),
     parseLog |-> Append(log, e)]

useMemoParse_DepsExpression(isMount, memo, log, e, outcome) ==
    IF isMount \/ log[Len(log)] # e
    THEN [parsedExpression |-> ParseOrNull(log, outcome),
          parseLog |-> Append(log, e)]
    ELSE [parsedExpression |-> memo, parseLog |-> log]

\* React.useMemo(..., []): computed by the first render, kept by all others
useMemoParse(isMount, memo, log, e, outcome) ==
    IF isMount
    THEN [parsedExpression |-> ParseOrNull(log, outcome),
          parseLog |-> Append(log, e)]
    ELSE [parsedExpression |-> memo, parseLog |-> log]

\* Object.is on the dependency: null, or the identity of the object
DepKey(p) == IF p = None THEN 0 ELSE p[1].id

effectDepsChanged_NoDeps(isMount, prev, next) == TRUE

\* React.useEffect(..., [parsedExpression])
effectDepsChanged(isMount, prev, next) ==
    isMount \/ DepKey(prev) # DepKey(next)

\* what one execution of the effect leaves behind
EffectResult(mode, thr, snack, parsed) ==
    [advancedEditorMode |-> mode, thresholdExpression |-> thr,
     snackbar |-> snack, parsedExpression |-> parsed]

useEffectBody_NoEmptyCheck(e, parsed, mode, thr, snack) ==
    IF parsed # None
    THEN LET r == getThresholdExpression(parsed[1].node)
             after == Some([parsed[1] EXCEPT !.node = r.exp])
         IN  IF r.ret # None
             THEN EffectResult(FALSE, r.ret[1], snack, after)
             ELSE EffectResult(TRUE, thr, snack, after)
    ELSE EffectResult(mode, thr, snack + 1, parsed)

useEffectBody_NoSeed(e, parsed, mode, thr, snack) ==
    IF IsEmptyExpression(e)
    THEN EffectResult(FALSE, thr, snack, parsed)
    ELSE IF parsed # None
    THEN LET r == getThresholdExpression(parsed[1].node)
             after == Some([parsed[1] EXCEPT !.node = r.exp])
         IN  IF r.ret # None
             THEN EffectResult(FALSE, thr, snack, after)
             ELSE EffectResult(TRUE, thr, snack, after)
    ELSE EffectResult(mode, thr, snack + 1, parsed)

\* the effect of line 518, run with the props and state of its render
useEffectBody(e, parsed, mode, thr, snack) ==
    IF IsEmptyExpression(e)
    THEN EffectResult(FALSE, thr, snack, parsed)
    ELSE IF parsed # None
    THEN LET r == getThresholdExpression(parsed[1].node)
             after == Some([parsed[1] EXCEPT !.node = r.exp])
         IN  IF r.ret # None
             THEN EffectResult(FALSE, r.ret[1], snack, after)
             ELSE EffectResult(TRUE, thr, snack, after)
    ELSE EffectResult(mode, thr, snack + 1, parsed)

\* the parts of the state a specification does not use
EditorOff ==
    /\ expression = None /\ thresholdEditorEnabled = None
    /\ parseResult = ParseError /\ pc = "off"
    /\ thresholdExpression = DefaultThreshold /\ advancedEditorMode = FALSE
    /\ parsedExpression = None /\ parseLog = <<>>
    /\ snackbar = 0 /\ effectRuns = 0 /\ renders = 0
ExtractOff == arg = OtherNode /\ extracted = None /\ xpc = "off"
TimeOff == timeStamp = <<>> /\ duration = None /\ tpc = "off"

\* the first render: the state initialisers and the memo have run, the
\* effect is still to come
Init ==
    /\ expression \in ExpressionProps
    /\ thresholdEditorEnabled \in Opt(BOOLEAN)
    /\ parseResult \in ParseResults
    /\ pc = "rendered"
    /\ thresholdExpression = DefaultThreshold
    /\ advancedEditorMode = InitialMode(thresholdEditorEnabled)
    /\ LET m == useMemoParse(TRUE, None, <<>>, expression, parseResult)
       IN  /\ parsedExpression = m.parsedExpression
           /\ parseLog = m.parseLog
    /\ snackbar = 0
    /\ effectRuns = 0
    /\ renders = 1
    /\ ExtractOff
    /\ TimeOff

\* the effects of the first render run
MountEffect ==
    /\ pc = "rendered"
    /\ LET r == useEffectBody(expression, parsedExpression, advancedEditorMode,
                              thresholdExpression, snackbar)
       IN  /\ advancedEditorMode' = r.advancedEditorMode
           /\ thresholdExpression' = r.thresholdExpression
           /\ snackbar' = r.snackbar
           /\ parsedExpression' = r.parsedExpression
    /\ effectRuns' = effectRuns + 1
    /\ pc' = "ready"
    /\ UNCHANGED <<expression, thresholdEditorEnabled, parseResult, parseLog,
                   renders, extractVars, timeVars>>

\* a later render pass of the hook with prop e and state (mode, thr), and
\* the effect after it when its dependency changed
Render(e, mode, thr) ==
    LET m == useMemoParse(FALSE, parsedExpression, parseLog, e, parseResult)
        run == effectDepsChanged(FALSE, parsedExpression, m.parsedExpression)
        r == IF run
             THEN useEffectBody(e, m.parsedExpression, mode, thr, snackbar)
             ELSE EffectResult(mode, thr, snackbar, m.parsedExpression)
    IN  /\ pc = "ready"
        /\ renders < MaxRenders
        /\ renders' = renders + 1
        /\ expression' = e
        /\ parseLog' = m.parseLog
        /\ parsedExpression' = r.parsedExpression
        /\ advancedEditorMode' = r.advancedEditorMode
        /\ thresholdExpression' = r.thresholdExpression
        /\ snackbar' = r.snackbar
        /\ effectRuns' = IF run THEN effectRuns + 1 ELSE effectRuns
        /\ UNCHANGED <<thresholdEditorEnabled, parseResult, pc, extractVars,
                       timeVars>>

\* toggleMode, line 286
ToggleMode == Render(expression, ~advancedEditorMode, thresholdExpression)

\* updateThresholdExpression, line 267: the form state it also updates
\* belongs to useForm
UpdateThresholdExpression ==
    \E t \in ThresholdEdits : Render(expression, advancedEditorMode, t)

\* a render that changes no state of the hook: the parent renders again, or
\* a keystroke in the raw expression field changes the form state (useForm)
Rerender == Render(expression, advancedEditorMode, thresholdExpression)

\* the parent hands the editor a rule with another expression
ExpressionChange ==
    \E e \in ExpressionProps \ {expression} :
        Render(e, advancedEditorMode, thresholdExpression)

Next ==
    \/ MountEffect
    \/ ToggleMode
    \/ UpdateThresholdExpression
    \/ Rerender
    \/ ExpressionChange

Spec == Init /\ [][Next]_vars

(* ---------------- getThresholdExpression on its own -------------------- *)
InitExtract ==
    /\ arg \in Expressions
    /\ extracted = None
    /\ xpc = "call"
    /\ EditorOff
    /\ TimeOff

\* one call; extracted.ret is the value returned, extracted.exp the argument
\* object as the call leaves it
Extract ==
    /\ xpc = "call"
    /\ extracted' = Some(getThresholdExpression(arg))
    /\ xpc' = "returned"
    /\ UNCHANGED <<arg, editorVars, timeVars>>

NextExtract == Extract

SpecExtract == InitExtract /\ [][NextExtract]_vars

(* ----------------------------- DurationCodec --------------------------- *)
Digits == <<"0", "1", "2", "3", "4", "5", "6", "7", "8", "9">>
IsDigit(c) == \E d \in 1..Len(Digits) : Digits[d] = c
DigitValue(c) == (CHOOSE d \in 1..Len(Digits) : Digits[d] = c) - 1
\* the characters duration strings are drawn from
Chars == {"0", "1", "2", "h", "m", "s", "x"}
TimeStrings == SeqsUpTo(Chars, MaxLen)

\* the units of the three repeated groups of durationRegex, in order
Units == <<"h", "m", "s">>

\* first position at or after i that holds no digit
RECURSIVE DigitsEnd(_, _)
DigitsEnd(s, i) ==
    IF i <= Len(s) /\ IsDigit(s[i]) THEN DigitsEnd(s, i + 1) ELSE i

\* /^((\d+)h)*((\d+)m)*((\d+)s)*$/ from position i in group `stage`; caps
\* are capture groups 2, 4 and 6, each holding what its last repetition
\* matched.  Returns the captures on a match, null otherwise.
RECURSIVE MatchFrom(_, _, _, _)
MatchFrom(s, i, stage, caps) ==
    IF stage > Len(Units)
    THEN IF i = Len(s) + 1 THEN Some(caps) ELSE None
    ELSE LET j == DigitsEnd(s, i)
         IN  IF j > i /\ j <= Len(s) /\ s[j] = Units[stage]
             THEN MatchFrom(s, j + 1, stage,
                            [caps EXCEPT ![stage] = Some(SubSeq(s, i, j - 1))])
             ELSE MatchFrom(s, i, stage + 1, caps)

\* parseInt(digits, 10) on a run of digits
RECURSIVE DecimalValue(_)
DecimalValue(ds) ==
    IF ds = <<>>
    THEN 0
    ELSE 10 * DecimalValue(SubSeq(ds, 1, Len(ds) - 1)) + DigitValue(ds[Len(ds)])

\* parseInt(group, 10) || 0: an unset group gives NaN, which is falsy
ParseIntOrZero(cap) == IF cap = None THEN 0 ELSE DecimalValue(cap[1])

Duration(h, m, sec) == [hours |-> h, minutes |-> m, seconds |-> sec]

parseTimeString(ts) ==
    IF ts = <<>>
    THEN Duration(0, 0, 0)
    ELSE LET match == MatchFrom(ts, 1, 1, <<None, None, None>>)
         IN  IF match = None
             THEN Duration(0, 0, 0)
             ELSE Duration(ParseIntOrZero(match[1][1]),
                           ParseIntOrZero(match[1][2]),
                           ParseIntOrZero(match[1][3]))

InitTime ==
    /\ timeStamp \in TimeStrings
    /\ duration = None
    /\ tpc = "call"
    /\ EditorOff
    /\ ExtractOff

ParseTime ==
    /\ tpc = "call"
    /\ duration' = Some(parseTimeString(timeStamp))
    /\ tpc' = "returned"
    /\ UNCHANGED <<timeStamp, editorVars, extractVars>>

NextTime == ParseTime

SpecTime == InitTime /\ [][NextTime]_vars

(* ------------------------------ properties ----------------------------- *)
\* the mount effect has run and nothing else has happened since
AfterMountEffect == pc = "ready" /\ renders = 1
\* the expression the editor was mounted with is non-empty / is rejected
MountedNonEmpty == ~IsEmptyExpression(parseLog[1])
ParseFailed == parseResult.kind = "ParseError"
HasReserved(labels) == \E i \in 1..Len(labels) : labels[i].name = "networkID"

\* C1: mounted with a non-empty expression that Parse rejects, the editor is
\* in advanced mode once the mount effect has run, whatever the value of
\* thresholdEditorEnabled.
C1_AdvancedAfterParseFailure ==
    (AfterMountEffect /\ MountedNonEmpty /\ ParseFailed)
        => advancedEditorMode = TRUE

\* C2: the parse-error warning has been enqueued exactly once as soon as the
\* mount effect has run on a non-empty expression that fails to parse, stays
\* at one through every later render, toggle, threshold edit and expression
\* change, and is never enqueued for an empty or a parsing expression.
C2_WarnedExactlyOnce ==
    pc # "off" =>
        snackbar = IF pc = "ready" /\ MountedNonEmpty /\ ParseFailed
                   THEN 1 ELSE 0

C2_Witness ==
    /\ pc = "ready" /\ MountedNonEmpty /\ ParseFailed
    /\ renders >= 3
    /\ thresholdExpression \in ThresholdEdits
    /\ snackbar = 1

\* C3: with an empty or absent source expression the parser is never
\* invoked.
C3_NeverParsedWhenEmpty ==
    (pc # "off" /\ renders = 1 /\ IsEmptyExpression(expression))
        => parseLog = <<>>

\* C3 (amended): with an empty or absent source expression the parser is
\* invoked exactly once, by the mount render, and never again in the
\* session, also when the expression later becomes non-empty.
C3_ParsedOnceAtMountWhenEmpty ==
    pc # "off" =>
        /\ Len(parseLog) >= 1
        /\ IsEmptyExpression(parseLog[1]) => Len(parseLog) = 1

C3_Witness ==
    /\ pc = "ready" /\ renders >= 3
    /\ IsEmptyExpression(parseLog[1])
    /\ ~IsEmptyExpression(expression)
    /\ Len(parseLog) = 1

\* C4: for an expression that is empty or parses, the mode after the mount
\* effect is advanced exactly when the expression is non-empty and the
\* extractor returns null on the parsed expression, whatever the value of
\* thresholdEditorEnabled.
C4_ModeAfterMount ==
    (AfterMountEffect /\ (~MountedNonEmpty \/ ~ParseFailed)) =>
        (advancedEditorMode <=>
            (MountedNonEmpty /\ getThresholdExpression(parseResult).ret = None))

C4_Witness ==
    /\ AfterMountEffect /\ MountedNonEmpty /\ ~ParseFailed
    /\ thresholdEditorEnabled = Some(TRUE)
    /\ advancedEditorMode

\* C5: after the mount effect the threshold record is the extractor's record
\* when the expression is non-empty, parses and is a threshold, and the
\* zero-value default in every other case.
C5_ThresholdAfterMount ==
    AfterMountEffect =>
        thresholdExpression =
            IF MountedNonEmpty /\ ~ParseFailed
                 /\ getThresholdExpression(parseResult).ret # None
            THEN getThresholdExpression(parseResult).ret[1]
            ELSE [metricName |-> "", comparator |-> [isObject |-> TRUE, op |-> "=="],
                  value |-> 0, filters |-> <<>>]

C5_Witness ==
    /\ AfterMountEffect /\ MountedNonEmpty /\ ~ParseFailed
    /\ thresholdExpression.metricName = "cpu_util"
    /\ thresholdExpression.value = 90

\* C6: every non-empty value the expression prop takes is parsed exactly
\* once: the value the editor is rendered with occurs once among the
\* arguments of Parse.
C6_EachValueParsedOnce ==
    (pc # "off" /\ ~IsEmptyExpression(expression)) =>
        Cardinality({i \in 1..Len(parseLog) : parseLog[i] = expression}) = 1

\* C6 (amended): the parser is invoked exactly once per mounted editor, by
\* the mount render on the expression of that render; later renders, mode
\* toggles, threshold edits and expression changes never invoke it again and
\* never run the deriving effect again, so a new value of the expression is
\* not parsed at all.
C6_ParsedOnlyAtMount ==
    pc # "off" =>
        /\ Len(parseLog) = 1
        /\ renders = 1 => parseLog = <<expression>>
        /\ effectRuns = IF pc = "ready" THEN 1 ELSE 0

C6_Witness ==
    /\ pc = "ready" /\ renders >= 3
    /\ MountedNonEmpty
    /\ ~IsEmptyExpression(expression)
    /\ expression # parseLog[1]
    /\ Len(parseLog) = 1

\* C7: the extractor returns a record exactly for a BinaryOperation of an
\* InstantSelector and a Scalar whose operator is one of the six comparators,
\* and the record carries the selector's name (the empty string when it has
\* none), the operator and the scalar's value.
C7_RecordIffThreshold ==
    xpc = "returned" =>
        LET ret == extracted[1].ret
        IN  /\ ret # None <=>
                  /\ arg.kind = "BinaryOperation"
                  /\ arg.lh.kind = "InstantSelector"
                  /\ arg.rh.kind = "Scalar"
                  /\ arg.operator \in
                        {[isObject |-> TRUE, op |-> o] :
                            o \in {"==", "!=", ">", "<", ">=", "<="}}
            /\ ret # None =>
                  /\ ret[1].metricName =
                        (IF arg.lh.selectorName = <<>>
                         THEN "" ELSE arg.lh.selectorName[1])
                  /\ ret[1].comparator = arg.operator
                  /\ ret[1].value = arg.rh.value

C7_Witness ==
    /\ xpc = "returned"
    /\ extracted[1].ret # None
    /\ extracted[1].ret[1].metricName = "cpu_util"
    /\ extracted[1].ret[1].comparator.op = "<="
    /\ extracted[1].ret[1].value = 90

\* the labels of a list that are not the reserved one, in their order
RECURSIVE OtherLabels(_)
OtherLabels(labels) ==
    IF labels = <<>>
    THEN <<>>
    ELSE IF Head(labels).name = "networkID"
    THEN OtherLabels(Tail(labels))
    ELSE <<Head(labels)>> \o OtherLabels(Tail(labels))

\* C8: the record the extractor returns holds no label named networkID and
\* holds exactly the selector's other labels, unchanged, so the threshold
\* record of the editor after the mount effect never holds the reserved
\* label.
C8_FiltersWithoutReserved ==
    AfterMountEffect =>
        /\ ~HasReserved(thresholdExpression.filters)
        /\ (MountedNonEmpty /\ ~ParseFailed /\ ~advancedEditorMode) =>
              thresholdExpression.filters =
                  (IF parseResult.lh.labels = <<>>
                   THEN <<>> ELSE OtherLabels(parseResult.lh.labels[1]))

C8_Witness ==
    /\ AfterMountEffect /\ MountedNonEmpty /\ ~ParseFailed
    /\ ~advancedEditorMode
    /\ parseResult.lh.labels # None
    /\ HasReserved(parseResult.lh.labels[1])
    /\ Len(thresholdExpression.filters) >= 1

\* a segment of the grammar: nothing, or digits followed by the unit
IsSegment(seg, unit) ==
    \/ seg = <<>>
    \/ /\ Len(seg) >= 2
       /\ seg[Len(seg)] = unit
       /\ \A k \in 1..(Len(seg) - 1) : IsDigit(seg[k])
SegmentValue(seg) ==
    IF seg = <<>> THEN 0 ELSE DecimalValue(SubSeq(seg, 1, Len(seg) - 1))
\* (\d+h)?(\d+m)?(\d+s)?: the string splits into an hours, a minutes and a
\* seconds segment, each present at most once
ReferenceDuration(ts) ==
    LET splits == {ab \in (0..Len(ts)) \X (0..Len(ts)) :
                      /\ ab[1] <= ab[2]
                      /\ IsSegment(SubSeq(ts, 1, ab[1]), "h")
                      /\ IsSegment(SubSeq(ts, ab[1] + 1, ab[2]), "m")
                      /\ IsSegment(SubSeq(ts, ab[2] + 1, Len(ts)), "s")}
    IN  IF splits = {}
        THEN [hours |-> 0, minutes |-> 0, seconds |-> 0]
        ELSE LET ab == CHOOSE x \in splits : TRUE
             IN  [hours |-> SegmentValue(SubSeq(ts, 1, ab[1])),
                  minutes |-> SegmentValue(SubSeq(ts, ab[1] + 1, ab[2])),
                  seconds |-> SegmentValue(SubSeq(ts, ab[2] + 1, Len(ts)))]

\* C9: parseTimeString agrees with the grammar (\d+h)?(\d+m)?(\d+s)? on
\* every string: the segments' values on a match, zero hours, minutes and
\* seconds on every other string.
C9_AgreesWithGrammar ==
    tpc = "returned" => duration = Some(ReferenceDuration(timeStamp))

\* C10: whenever the extractor returns null it has left its argument as it
\* was, the selector's labels included.
C10_NullLeavesInputUnchanged ==
    (xpc = "returned" /\ extracted[1].ret = None) => extracted[1].exp = arg

=============================================================================
